---- MODULE Spec2Model ----
(***************************************************************************)
(* Lithology viewer client (static/app.js).  The source file holds three   *)
(* variants of the page script:                                            *)
(*   variant 1 (lines   1-246): entry cards with a section table + symbol, *)
(*   variant 2 (lines 248-551): entry cards with a proportional log strip, *)
(*   variant 3 (lines 553-607): one plain table row per entry.             *)
(*                                                                         *)
(* JavaScript values are records [t, n, s]: t is the type, n the number    *)
(* (in thousandths, so 0.5 is 500) or the boolean (0/1), s the string as a *)
(* sequence of characters.  A character is a one-token string; the tokens  *)
(* "sv"/"SV" and "cv"/"CV" stand for the letters s-caron and c-caron.      *)
(***************************************************************************)
EXTENDS Integers, Sequences, FiniteSets, TLC

VARIABLES variant, pc, response, classes, statusText, hidden, cards, last, op, arg, res

vars == <<variant, pc, response, classes, statusText, hidden, cards, last, op, arg, res>>

(***************************************************************************)
(* Bounds of the model.                                                    *)
(***************************************************************************)
MaxEntries == 2

MaxLen == 3

MaxWords == 2

MaxDepth == 3

MaxSections == 3

(***************************************************************************)
(* JavaScript values.                                                      *)
(***************************************************************************)
Null == [t |-> "null", n |-> 0, s |-> <<>>]

Undefined == [t |-> "undefined", n |-> 0, s |-> <<>>]

Num(m) == [t |-> "number", n |-> m, s |-> <<>>]

Str(chars) == [t |-> "string", n |-> 0, s |-> chars]

Bool(b) == [t |-> "boolean", n |-> IF b THEN 1 ELSE 0, s |-> <<>>]

EmDash == <<"--">>

Digits == <<"0", "1", "2", "3", "4", "5", "6", "7", "8", "9">>

DigitChars == {"0", "1", "2", "3", "4", "5", "6", "7", "8", "9"}

DigitValue(c) == CHOOSE d \in 0..9 : Digits[d + 1] = c

IsDigit(c) == c \in DigitChars

Abs(x) == IF x < 0 THEN -x ELSE x

RECURSIVE NatToChars(_)
NatToChars(k) ==
    IF k < 10 THEN <<Digits[k + 1]>>
    ELSE NatToChars(k \div 10) \o <<Digits[(k % 10) + 1]>>

\* The fraction digits of a number, from its thousandths (no trailing zero).
FractionChars(fp) ==
    IF fp = 0 THEN <<>>
    ELSE IF fp % 10 # 0
    THEN <<".", Digits[(fp \div 100) + 1], Digits[((fp \div 10) % 10) + 1],
           Digits[(fp % 10) + 1]>>
    ELSE IF (fp \div 10) % 10 # 0
    THEN <<".", Digits[(fp \div 100) + 1], Digits[((fp \div 10) % 10) + 1]>>
    ELSE <<".", Digits[(fp \div 100) + 1]>>

\* Number.prototype.toString for a finite number given in thousandths.
NumToChars(m) ==
    (IF m < 0 THEN <<"-">> ELSE <<>>)
    \o NatToChars(Abs(m) \div 1000) \o FractionChars(Abs(m) % 1000)

\* String(value) / value.toString() for the value types of the model.
JsToString(v) ==
    CASE v.t = "string" -> v.s
      [] v.t = "number" -> NumToChars(v.n)
      [] v.t = "boolean" -> IF v.n = 1 THEN <<"t", "r", "u", "e">>
                            ELSE <<"f", "a", "l", "s", "e">>
      [] v.t = "null" -> <<"n", "u", "l", "l">>
      [] OTHER -> <<"u", "n", "d", "e", "f", "i", "n", "e", "d">>

\* ToBoolean.
Truthy(v) ==
    CASE v.t = "string" -> v.s # <<>>
      [] v.t = "number" -> v.n # 0
      [] v.t = "boolean" -> v.n = 1
      [] OTHER -> FALSE

\* a || b
JsOr(a, b) == IF Truthy(a) THEN a ELSE b

RECURSIVE TrimStart(_)
TrimStart(chars) ==
    IF chars # <<>> /\ Head(chars) = " " THEN TrimStart(Tail(chars)) ELSE chars

RECURSIVE TrimEnd(_)
TrimEnd(chars) ==
    IF chars # <<>> /\ chars[Len(chars)] = " "
    THEN TrimEnd(SubSeq(chars, 1, Len(chars) - 1))
    ELSE chars

\* String.prototype.trim
Trim(chars) == TrimEnd(TrimStart(chars))

\* String.prototype.includes
Includes(text, keyword) ==
    \E i \in 0..(Len(text) - Len(keyword)) :
        \A j \in 1..Len(keyword) : text[i + j] = keyword[j]

CasePairs ==
    { <<"A", "a">>, <<"B", "b">>, <<"D", "d">>, <<"E", "e">>, <<"G", "g">>,
      <<"H", "h">>, <<"I", "i">>, <<"J", "j">>, <<"K", "k">>, <<"L", "l">>,
      <<"M", "m">>, <<"N", "n">>, <<"O", "o">>, <<"P", "p">>, <<"R", "r">>,
      <<"S", "s">>, <<"T", "t">>, <<"U", "u">>, <<"V", "v">>, <<"SV", "sv">>,
      <<"CV", "cv">> }

LowerChar(c) ==
    IF \E p \in CasePairs : p[1] = c
    THEN (CHOOSE p \in CasePairs : p[1] = c)[2]
    ELSE c

UpperChar(c) ==
    IF \E p \in CasePairs : p[2] = c
    THEN (CHOOSE p \in CasePairs : p[2] = c)[1]
    ELSE c

\* String.prototype.toLowerCase
ToLowerCase(chars) == [i \in 1..Len(chars) |-> LowerChar(chars[i])]

ToUpperCase(chars) == [i \in 1..Len(chars) |-> UpperChar(chars[i])]

\* The value of a digit string.
RECURSIVE ParseNat(_)
ParseNat(seq) ==
    IF seq = <<>> THEN 0
    ELSE 10 * ParseNat(SubSeq(seq, 1, Len(seq) - 1)) + DigitValue(seq[Len(seq)])

\* The i-th fraction digit (0 past the end).
FractionDigit(seq, i) == IF i <= Len(seq) THEN DigitValue(seq[i]) ELSE 0

\* An unsigned decimal literal: digits with at most one point, a digit at least.
WellFormed(body) ==
    /\ body # <<>>
    /\ \A i \in 1..Len(body) : IsDigit(body[i]) \/ body[i] = "."
    /\ Cardinality({i \in 1..Len(body) : body[i] = "."}) <= 1
    /\ \E i \in 1..Len(body) : IsDigit(body[i])

\* Where the point of a well-formed literal is (past the end when it has none).
DotIndex(body) ==
    IF \E i \in 1..Len(body) : body[i] = "."
    THEN CHOOSE i \in 1..Len(body) : body[i] = "."
    ELSE Len(body) + 1

\* The value, in thousandths, of integer part ip and fraction part fp.
Magnitude(ip, fp) ==
    1000 * ParseNat(ip)
    + 100 * FractionDigit(fp, 1) + 10 * FractionDigit(fp, 2) + FractionDigit(fp, 3)

ParseUnsigned(body, negative) ==
    IF ~WellFormed(body) THEN [finite |-> FALSE, n |-> 0]
    ELSE [finite |-> TRUE,
          n |-> IF negative
                THEN -Magnitude(SubSeq(body, 1, DotIndex(body) - 1),
                                SubSeq(body, DotIndex(body) + 1, Len(body)))
                ELSE Magnitude(SubSeq(body, 1, DotIndex(body) - 1),
                               SubSeq(body, DotIndex(body) + 1, Len(body)))]

ParseTrimmed(t) ==
    IF t = <<>> THEN [finite |-> TRUE, n |-> 0]
    ELSE IF Head(t) \in {"-", "+"} THEN ParseUnsigned(Tail(t), Head(t) = "-")
    ELSE ParseUnsigned(t, FALSE)

\* Number(text): [finite, n].  Decimal literals only (no exponent, hex or
\* Infinity: the model's strings hold none of their characters), with at most
\* three fraction digits (MaxLen keeps them that short).
ParseNumber(text) == ParseTrimmed(Trim(text))

\* Number(x.toFixed(2)), in thousandths: the nearest hundredth.  The numbers of
\* the model have a third decimal other than 5, so no tie arises.
ToFixed2(m) ==
    IF m < 0 THEN -(10 * ((Abs(m) + 5) \div 10)) ELSE 10 * ((Abs(m) + 5) \div 10)

(***************************************************************************)
(* The lithology table and the classifier.                                 *)
(***************************************************************************)
LITHOLOGY_SYMBOLS ==
    << [keywords |-> << <<"g", "l", "i", "n", "a">>,
                        <<"g", "l", "i", "n", "a", "s", "t">>,
                        <<"g", "l", "i", "n", "e", "n", "a">> >>,
        label |-> "Clay", color |-> "#b07a4a"],
       [keywords |-> << <<"p", "e", "s", "e", "k">>,
                        <<"p", "e", "sv", "cv">>,
                        <<"p", "e", "sv", "cv", "e", "n", "a">> >>,
        label |-> "Sand", color |-> "#d5a651"],
       [keywords |-> << <<"m", "e", "l", "j">>,
                        <<"m", "e", "l", "j", "a", "s", "t">> >>,
        label |-> "Silt", color |-> "#c0bb7c"],
       [keywords |-> << <<"p", "r", "o", "d">>,
                        <<"p", "r", "o", "d", "n">> >>,
        label |-> "Gravel", color |-> "#8e7458"],
       [keywords |-> << <<"o", "r", "g", "a", "n", "s", "k", "a">>,
                        <<"h", "u", "m", "u", "s">>,
                        <<"sv", "o", "t", "a">>,
                        <<"sv", "o", "t", "n", "i">> >>,
        label |-> "Organic material", color |-> "#4f6a3f"],
       [keywords |-> << <<"l", "a", "p", "o", "r">>,
                        <<"l", "a", "p", "o", "r", "o", "v">> >>,
        label |-> "Marl", color |-> "#6f7f99"] >>

DEFAULT_LITHOLOGY_SYMBOL == [label |-> "Unknown lithology", color |-> "#6b7280"]

\* symbol.keywords.some((keyword) => text.includes(keyword))
SymbolMatches(symbol, text) ==
    \E k \in 1..Len(symbol.keywords) : Includes(text, symbol.keywords[k])

\* The categories, by position in the table, one of whose keywords text holds.
MatchingSymbols(text) ==
    {i \in 1..Len(LITHOLOGY_SYMBOLS) : SymbolMatches(LITHOLOGY_SYMBOLS[i], text)}

\* The for...of loop over LITHOLOGY_SYMBOLS: the first match returns.
FirstMatchLoop(text) ==
    IF MatchingSymbols(text) = {} THEN DEFAULT_LITHOLOGY_SYMBOL
    ELSE LITHOLOGY_SYMBOLS[
             CHOOSE i \in MatchingSymbols(text) : \A j \in MatchingSymbols(text) : i <= j]

InferFromText(text) ==
    IF text = <<>> THEN DEFAULT_LITHOLOGY_SYMBOL ELSE FirstMatchLoop(text)

\* inferLithologySymbol without the lower-casing of the description.
inferLithologySymbol_CaseSensitive(description) ==
    InferFromText(JsToString(JsOr(description, Str(<<>>))))

inferLithologySymbol(description) ==
    InferFromText(ToLowerCase(JsToString(JsOr(description, Str(<<>>)))))

(***************************************************************************)
(* Depth formatting and parsing, interval size.                            *)
(***************************************************************************)
\* Number.isInteger(n) ? n.toString() : Number(n.toFixed(2)).toString()
RoundedChars(n) ==
    IF n % 1000 = 0 THEN NumToChars(n) ELSE NumToChars(ToFixed2(n))

\* formatDepth with the unit appended to every non-empty text.
FormatText_UnitAlways(text, numericValue) ==
    IF text = <<>> THEN EmDash
    ELSE IF numericValue.finite THEN RoundedChars(numericValue.n) \o <<" ", "m">>
    ELSE text \o <<" ", "m">>

formatDepth_UnitAlways(value) ==
    IF value.t \in {"null", "undefined"} THEN EmDash
    ELSE FormatText_UnitAlways(Trim(JsToString(value)),
                               ParseNumber(Trim(JsToString(value))))

\* formatDepth from `if (!text)` on: text is the trimmed string, numericValue
\* is Number(text).
FormatText(text, numericValue) ==
    IF text = <<>> THEN EmDash
    ELSE IF numericValue.finite THEN RoundedChars(numericValue.n) \o <<" ", "m">>
    ELSE text

formatDepth(value) ==
    IF value.t \in {"null", "undefined"} THEN EmDash
    ELSE FormatText(Trim(JsToString(value)), ParseNumber(Trim(JsToString(value))))

\* text.replace(',', '.'): the first comma only.
ReplaceFirstComma(text) ==
    IF \E i \in 1..Len(text) : text[i] = ","
    THEN [text EXCEPT
             ![CHOOSE i \in 1..Len(text) :
                  text[i] = "," /\ \A j \in 1..(i - 1) : text[j] # ","] = "."]
    ELSE text

\* parseDepthValue from `if (!text)` on.
ParseDepthText(text, numericValue) ==
    IF text = <<>> THEN Null
    ELSE IF numericValue.finite THEN Num(numericValue.n) ELSE Null

parseDepthValue(value) ==
    IF value.t \in {"null", "undefined"} THEN Null
    ELSE ParseDepthText(Trim(JsToString(value)),
                        ParseNumber(ReplaceFirstComma(Trim(JsToString(value)))))

HalfUnit == 500

OneUnit == 1000

\* Number.isFinite
IsFiniteNumber(v) == v.t = "number"

\* computeIntervalSize without the fallback for a zero thickness.
computeIntervalSize_NoFallback(fromValue, toValue) ==
    IF IsFiniteNumber(fromValue) /\ IsFiniteNumber(toValue)
       /\ toValue.n - fromValue.n >= 0
    THEN toValue.n - fromValue.n
    ELSE OneUnit

computeIntervalSize(fromValue, toValue) ==
    IF IsFiniteNumber(fromValue) /\ IsFiniteNumber(toValue)
    THEN IF toValue.n - fromValue.n > 0 THEN toValue.n - fromValue.n
         ELSE IF toValue.n - fromValue.n = 0 THEN HalfUnit
         ELSE OneUnit
    ELSE OneUnit

(***************************************************************************)
(* The interval filter of the loader and the two interval renderers.       *)
(***************************************************************************)
\* KeepSection with explicit absence checks in place of truthiness.
KeepSection_AbsenceChecks(section) ==
    \/ Trim(JsToString(JsOr(section.description, Str(<<>>)))) # <<>>
    \/ section.from_depth \notin {Null, Undefined, Str(<<>>)}
    \/ section.to_depth \notin {Null, Undefined, Str(<<>>)}

\* The callback of entry.sections.filter(...).
KeepSection(section) ==
    Truthy(JsOr(JsOr(Str(Trim(JsToString(JsOr(section.description, Str(<<>>))))),
                     section.from_depth),
                section.to_depth))

\* FilterSections that also drops an interval equal to the one before it.
RECURSIVE FilterSections_Dedup(_)
FilterSections_Dedup(sections) ==
    IF sections = <<>> THEN <<>>
    ELSE IF ~KeepSection(Head(sections))
            \/ (Len(sections) > 1 /\ sections[2] = Head(sections))
    THEN FilterSections_Dedup(Tail(sections))
    ELSE <<Head(sections)>> \o FilterSections_Dedup(Tail(sections))

\* Array.prototype.filter with KeepSection: order kept, nothing merged.
RECURSIVE FilterSections(_)
FilterSections(sections) ==
    IF sections = <<>> THEN <<>>
    ELSE IF KeepSection(Head(sections))
    THEN <<Head(sections)>> \o FilterSections(Tail(sections))
    ELSE FilterSections(Tail(sections))

EmptyStateText == "No lithological section data is available in the workbook."

\* One <tr> of createSectionTable; symbol is inferLithologySymbol's result.
TableRowOf(section, symbol) ==
    [from |-> formatDepth(section.from_depth),
     to |-> formatDepth(section.to_depth),
     label |-> symbol.label,
     color |-> symbol.color,
     description |-> section.description,
     size |-> 0,
     total |-> 0]

TableRow(section) == TableRowOf(section, inferLithologySymbol(section.description))

createSectionTable(sections) ==
    IF Len(sections) = 0
    THEN [kind |-> "table", message |-> EmptyStateText, rows |-> <<>>]
    ELSE [kind |-> "table", message |-> "",
          rows |-> [i \in 1..Len(sections) |-> TableRow(sections[i])]]

\* The size of sections[i] as createLithologyLog's map computes it.
IntervalSize(section) ==
    computeIntervalSize(parseDepthValue(section.from_depth),
                        parseDepthValue(section.to_depth))

RECURSIVE SumSizes(_)
SumSizes(sections) ==
    IF sections = <<>> THEN 0
    ELSE IntervalSize(Head(sections)) + SumSizes(Tail(sections))

\* sum || count
SumOrCount(sum, count) == IF sum # 0 THEN sum ELSE OneUnit * count

\* intervals.reduce(...) || sections.length
TotalSize(sections) == SumOrCount(SumSizes(sections), Len(sections))

\* One row of the log strip; --interval-size is size / total.
LogRowOf(section, symbol, totalSize) ==
    [from |-> formatDepth(section.from_depth),
     to |-> formatDepth(section.to_depth),
     label |-> symbol.label,
     color |-> symbol.color,
     description |-> section.description,
     size |-> IntervalSize(section),
     total |-> totalSize]

LogRow(section, totalSize) ==
    LogRowOf(section, inferLithologySymbol(section.description), totalSize)

LogRows(sections, totalSize) ==
    [i \in 1..Len(sections) |-> LogRow(sections[i], totalSize)]

createLithologyLog(sections) ==
    IF Len(sections) = 0
    THEN [kind |-> "log", message |-> EmptyStateText, rows |-> <<>>]
    ELSE [kind |-> "log", message |-> "", rows |-> LogRows(sections, TotalSize(sections))]

(***************************************************************************)
(* Entry cards.                                                            *)
(***************************************************************************)
LoneSurrogate == "LONE_SURROGATE"

\* encodeURIComponent raises URIError on a lone surrogate.
UriMalformed(chars) == \E i \in 1..Len(chars) : chars[i] = LoneSurrogate

RECURSIVE encodeURIComponent(_)
encodeURIComponent(chars) ==
    IF chars = <<>> THEN <<>>
    ELSE (IF Head(chars) = " " THEN <<"%", "2", "0">> ELSE <<Head(chars)>>)
         \o encodeURIComponent(Tail(chars))

\* Array.isArray(entry.sections) ? entry.sections : []
SectionsOrEmpty(entry) == IF entry.sections.isArray THEN entry.sections.items ELSE <<>>

createEntryCard(v, entry) ==
    [kind |-> "card",
     title |-> entry.title,
     badge |-> entry.tab_name,
     description |-> entry.description,
     href |-> <<"/", "p", "d", "f", "s", "/">> \o encodeURIComponent(entry.pdf_filename),
     body |-> IF v = 1 THEN createSectionTable(SectionsOrEmpty(entry))
              ELSE createLithologyLog(SectionsOrEmpty(entry))]

\* createEntryCard raises (from encodeURIComponent, before the body is built).
CardThrows(entry) == UriMalformed(entry.pdf_filename)

\* One <tr> of variant 3's table: the text cells, then createLinkCell.
createEntryRow(entry) ==
    [kind |-> "row",
     title |-> entry.title,
     badge |-> entry.tab_name,
     description |-> entry.description,
     href |-> <<"/", "p", "d", "f", "s", "/">> \o encodeURIComponent(entry.pdf_filename),
     body |-> [kind |-> "none", message |-> "", rows |-> <<>>]]

\* entry.tab_name on null raises TypeError; createLinkCell raises URIError.
RowThrows(entry) == entry.isNull \/ UriMalformed(entry.pdf_filename)

(***************************************************************************)
(* The responses the endpoint may give.                                    *)
(***************************************************************************)
Section(d, f, t) == [description |-> d, from_depth |-> f, to_depth |-> t]

\* "Glina", 0 .. 2: fully populated.
SecFull == Section(Str(<<"G", "l", "i", "n", "a">>), Num(0), Num(2 * OneUnit))

\* empty description, zero depths: dropped by the filter.
SecBlank == Section(Str(<<>>), Num(0), Num(0))

\* blank description, textual from depth "4,5", no to depth.
SecText == Section(Str(<<" ">>), Str(<<"4", ",", "5">>), Null)

\* "pesek", 2 .. 2: zero thickness.
SecThin == Section(Str(<<"p", "e", "s", "e", "k">>), Num(2 * OneUnit), Num(2 * OneUnit))

Entry(title, pdf, isArray, items) ==
    [isNull |-> FALSE, title |-> title, tab_name |-> title, description |-> title,
     pdf_filename |-> pdf, sections |-> [isArray |-> isArray, items |-> items]]

NullEntry ==
    [isNull |-> TRUE, title |-> "", tab_name |-> "", description |-> "",
     pdf_filename |-> <<>>, sections |-> [isArray |-> FALSE, items |-> <<>>]]

EntrySamples ==
    { Entry("A", <<"A", " ", "1", ".", "p", "d", "f">>, TRUE, <<SecFull, SecBlank>>),
      Entry("B", <<"B", ".", "p", "d", "f">>, TRUE, <<SecBlank>>),
      Entry("C", <<"C", ".", "p", "d", "f">>, FALSE, <<>>),
      Entry("D", <<"D", ".", "p", "d", "f">>, TRUE,
            <<SecThin, SecBlank, SecFull, SecFull, SecText>>),
      Entry("P", <<LoneSurrogate>>, TRUE, <<SecFull>>),
      NullEntry }

SeqsUpTo(S, n) == UNION {[1..k -> S] : k \in 0..n}

NotAnArray == [isArray |-> FALSE, items |-> <<>>]

Payloads ==
    {NotAnArray} \cup {[isArray |-> TRUE, items |-> es] : es \in SeqsUpTo(EntrySamples, MaxEntries)}

\* What response.json() gives: a payload, or a SyntaxError.
Bodies ==
    {[parsed |-> FALSE, payload |-> NotAnArray]}
        \cup {[parsed |-> TRUE, payload |-> p] : p \in Payloads}

StatusCodes == {200, 404, 500}

\* response.ok
ResponseOk(status) == status \in 200..299

RejectMessages == {<<"Failed to fetch">>, <<"Load failed">>}

SyntaxErrorMessage == <<"Unexpected end of JSON input">>

TypeErrorMessage == <<"Cannot read properties of null">>

UriErrorMessage == <<"URI malformed">>

StatusErrorMessage(status) == <<"Server responded with status ", ToString(status)>>

(***************************************************************************)
(* loadLithology.  A DOM state is [classes, statusText, hidden, cards]:    *)
(* the status element's state classes and text, the hidden flag of the     *)
(* content area (entriesContainer / tableWrapper) and its children.        *)
(***************************************************************************)
Dom(c, t, h, k) == [classes |-> c, statusText |-> t, hidden |-> h, cards |-> k]

Finished(outcome, message, dom) == [outcome |-> outcome, message |-> message, dom |-> dom]

\* The catch block of variants 1 and 2.
CatchBlock12(dom, message) ==
    Finished("error", message,
             Dom((dom.classes \ {"success", "empty"}) \cup {"error"},
                 <<"Error loading lithology sections: ">> \o message,
                 dom.hidden, dom.cards))

\* The catch block of variant 3.
CatchBlock3(dom, message) ==
    Finished("error", message,
             Dom(dom.classes \cup {"error"},
                 <<"Error loading lithology sections: ">> \o message,
                 dom.hidden, dom.cards))

CatchBlock(v, dom, message) ==
    IF v = 3 THEN CatchBlock3(dom, message) ELSE CatchBlock12(dom, message)

\* payload.map(...): each entry with its sections filtered.
MapEntry(entry) ==
    [entry EXCEPT !.sections =
        [isArray |-> TRUE,
         items |-> IF entry.sections.isArray THEN FilterSections(entry.sections.items)
                   ELSE <<>>]]

\* FilterEntries without the drop of entries left with no interval.
FilterEntries_KeepAll(entries) == [i \in 1..Len(entries) |-> MapEntry(entries[i])]

RECURSIVE FilterEntries(_)
FilterEntries(entries) ==
    IF entries = <<>> THEN <<>>
    ELSE IF Len(MapEntry(Head(entries)).sections.items) > 0
    THEN <<MapEntry(Head(entries))>> \o FilterEntries(Tail(entries))
    ELSE FilterEntries(Tail(entries))

\* AppendCards with each card put before the ones already there.
RECURSIVE AppendCards_Prepend(_, _)
AppendCards_Prepend(v, entries) ==
    IF entries = <<>> \/ CardThrows(Head(entries)) THEN <<>>
    ELSE AppendCards_Prepend(v, Tail(entries)) \o <<createEntryCard(v, Head(entries))>>

\* entries.forEach(appendChild): the cards appended before the first entry whose
\* card raises (all of them when none does).
RECURSIVE AppendCards(_, _)
AppendCards(v, entries) ==
    IF entries = <<>> \/ CardThrows(Head(entries)) THEN <<>>
    ELSE <<createEntryCard(v, Head(entries))>> \o AppendCards(v, Tail(entries))

RECURSIVE AppendRows(_)
AppendRows(entries) ==
    IF entries = <<>> \/ RowThrows(Head(entries)) THEN <<>>
    ELSE <<createEntryRow(Head(entries))>> \o AppendRows(Tail(entries))

LogLabel(n) == IF n = 1 THEN "log" ELSE "logs"

\* statusElement.classList.remove('empty', 'error', 'success')
ClearClasses(dom) ==
    Dom(dom.classes \ {"empty", "error", "success"}, dom.statusText, dom.hidden, dom.cards)

\* Variants 1 and 2 after the forEach: built holds the cards appended to the
\* emptied content area, fewer than entries when building one raised.
ShowCards(dom, entries, built) ==
    IF Len(built) < Len(entries)
    THEN CatchBlock12(Dom(dom.classes, dom.statusText, dom.hidden, built), UriErrorMessage)
    ELSE Finished("success", <<>>,
             Dom(dom.classes \cup {"success"},
                 <<ToString(Len(entries)), " ", LogLabel(Len(entries)),
                   " with lithological data loaded.">>,
                 FALSE, built))

\* Variants 1 and 2 from `if (entries.length === 0)` on.
RenderEntries(v, dom, entries) ==
    IF Len(entries) = 0
    THEN Finished("empty", <<>>,
             Dom((dom.classes \ {"success", "error"}) \cup {"empty"},
                 <<"No lithology logs with interval data are available yet.">>,
                 TRUE, dom.cards))
    ELSE ShowCards(dom, entries, AppendCards(v, entries))

\* Variants 1 and 2 from `const payload = await response.json()` on.
LoadBody12(v, dom, payload) ==
    IF ~payload.isArray \/ Len(payload.items) = 0
    THEN Finished("empty", <<>>,
             Dom((dom.classes \ {"success", "error"}) \cup {"empty"},
                 <<"No lithology logs are available yet.">>, TRUE, dom.cards))
    ELSE IF \E i \in 1..Len(payload.items) : payload.items[i].isNull
    THEN CatchBlock12(ClearClasses(dom), TypeErrorMessage)
    ELSE RenderEntries(v, ClearClasses(dom), FilterEntries(payload.items))

\* Variant 3 after the forEach: built holds the rows appended, fewer than the
\* entries when building one raised.
ShowRows(dom, items, built) ==
    IF Len(built) < Len(items)
    THEN CatchBlock3(Dom(dom.classes, dom.statusText, dom.hidden, built),
                     IF items[Len(built) + 1].isNull THEN TypeErrorMessage
                     ELSE UriErrorMessage)
    ELSE Finished("success", <<>>,
             Dom(dom.classes \cup {"success"},
                 <<ToString(Len(items)), " lithology section",
                   IF Len(items) = 1 THEN "" ELSE "s", " loaded.">>,
                 FALSE, built))

\* Variant 3 from `const entries = await response.json()` on.
LoadBody3(dom, payload) ==
    IF ~payload.isArray \/ Len(payload.items) = 0
    THEN Finished("empty", <<>>,
             Dom(dom.classes \cup {"empty"},
                 <<"No lithology sections are available yet.">>, dom.hidden, dom.cards))
    ELSE ShowRows(dom, payload.items, AppendRows(payload.items))

LoadBody(v, dom, payload) ==
    IF v = 3 THEN LoadBody3(dom, payload) ELSE LoadBody12(v, dom, payload)

(***************************************************************************)
(* The page: one loadLithology invocation at a time, each in three steps   *)
(* (the call, the settling of fetch, the settling of response.json()).     *)
(* Everything after the second await runs without interruption, so the     *)
(* writes of overlapping invocations would be serialised the same way.     *)
(* `response` is the response being read; `last` records how the latest    *)
(* finished invocation ended (cause: why, message: the text of what was    *)
(* thrown, size: the number of entries it was given, repeat: it was not    *)
(* the first to finish).                                                   *)
(***************************************************************************)
CurDom == Dom(classes, statusText, hidden, cards)

NoResponse == [status |-> 0, body |-> [parsed |-> FALSE, payload |-> NotAnArray]]

NoLoad ==
    [outcome |-> "none", cause |-> "none", message |-> <<>>, size |-> 0, repeat |-> FALSE]

IdleFn == op = "none" /\ arg = Null /\ res = [done |-> FALSE, value |-> Null]

\* The status element carries no state class, the content area ships hidden
\* (the scripts only ever un-hide it) and holds no card.
LoaderInit ==
    /\ pc = "idle"
    /\ response = NoResponse
    /\ classes = {}
    /\ statusText = <<>>
    /\ hidden = TRUE
    /\ cards = <<>>
    /\ last = NoLoad

\* The two card variants (the claims about filtering and cards are theirs).
Init == variant \in {1, 2} /\ LoaderInit /\ IdleFn

\* Any of the three variants.
InitAll == variant \in {1, 2, 3} /\ LoaderInit /\ IdleFn

Finish(fin, cause) ==
    /\ pc' = "idle"
    /\ response' = NoResponse
    /\ classes' = fin.dom.classes
    /\ statusText' = fin.dom.statusText
    /\ hidden' = fin.dom.hidden
    /\ cards' = fin.dom.cards
    /\ last' = [outcome |-> fin.outcome, cause |-> cause, message |-> fin.message,
                size |-> Len(response.body.payload.items),
                repeat |-> last.outcome # "none"]
    /\ UNCHANGED <<variant, op, arg, res>>

\* window DOMContentLoaded (or any later call): fetch('/api/lithology') is issued.
Invoke ==
    /\ pc = "idle"
    /\ pc' = "fetch"
    /\ UNCHANGED <<variant, response, classes, statusText, hidden, cards, last, op, arg, res>>

\* fetch rejects.
FetchReject ==
    /\ pc = "fetch"
    /\ \E message \in RejectMessages :
          Finish(CatchBlock(variant, CurDom, message), "reject")

\* fetch resolves with a response: a status and the body the server sent.
FetchRespond ==
    /\ pc = "fetch"
    /\ \E status \in StatusCodes, body \in Bodies :
          IF ResponseOk(status)
          THEN /\ pc' = "json"
               /\ response' = [status |-> status, body |-> body]
               /\ UNCHANGED <<variant, classes, statusText, hidden, cards, last, op, arg, res>>
          ELSE /\ body = NoResponse.body
               /\ Finish(CatchBlock(variant, CurDom, StatusErrorMessage(status)), "status")

\* response.json() settles and the rest of loadLithology runs.
JsonSettle ==
    /\ pc = "json"
    /\ IF response.body.parsed
       THEN Finish(LoadBody(variant, CurDom, response.body.payload), "body")
       ELSE Finish(CatchBlock(variant, CurDom, SyntaxErrorMessage), "parse")

Next == Invoke \/ FetchReject \/ FetchRespond \/ JsonSettle

Spec == Init /\ [][Next]_vars

SpecAll == InitAll /\ [][Next]_vars

(***************************************************************************)
(* The pure functions applied to bounded inputs.                           *)
(***************************************************************************)
DepthChars == {" ", "0", "4", ",", ".", "-", "a"}

NumberSamples == {0, 3000, 3100, 4500, 2346, -4, -1500}

FormatInputs ==
    {Null, Undefined} \cup {Num(m) : m \in NumberSamples}
        \cup {Str(chars) : chars \in SeqsUpTo(DepthChars, MaxLen)}

Vocabulary ==
    { <<"g", "l", "i", "n", "a">>, <<"p", "e", "s", "e", "k">>,
      <<"p", "e", "sv", "cv", "e", "n">>, <<"m", "e", "l", "j">>,
      <<"p", "r", "o", "d", "n", "a", "t">>, <<"h", "u", "m", "u", "s">>,
      <<"sv", "o", "t", "a">>, <<"l", "a", "p", "o", "r">>,
      <<"g", "r", "a", "n", "i", "t">> }

Words == Vocabulary \cup {ToUpperCase(w) : w \in Vocabulary}

RECURSIVE JoinWords(_)
JoinWords(ws) ==
    IF ws = <<>> THEN <<>>
    ELSE IF Len(ws) = 1 THEN Head(ws)
    ELSE Head(ws) \o <<" ">> \o JoinWords(Tail(ws))

DescriptionInputs ==
    {Null, Undefined, Num(0), Num(5 * OneUnit), Bool(FALSE), Bool(TRUE), Str(<<" ">>)}
        \cup {Str(JoinWords(ws)) : ws \in SeqsUpTo(Words, MaxWords)}

ParsedDepths == {Null} \cup {Num(k * HalfUnit) : k \in (-MaxDepth)..MaxDepth}

SizeInputs == ParsedDepths \X ParsedDepths

RawDescriptions ==
    {Null, Undefined, Str(<<>>), Str(<<" ">>), Str(<<" ", " ">>), Str(<<" ", "a", " ">>),
     Str(<<"g", "l", "i", "n", "a">>)}

RawDepths ==
    {Null, Undefined, Num(0), Num(1500), Str(<<>>), Str(<<"0">>), Str(<<" ">>),
     Str(<<"4", ",", "5">>)}

SectionInputs ==
    {Section(d, f, t) : d \in RawDescriptions, f \in RawDepths, t \in RawDepths}

SectionSamples == {SecFull, SecBlank, SecText, SecThin}

SectionLists == SeqsUpTo(SectionSamples, MaxSections)

FnInputs(o) ==
    CASE o = "inferLithologySymbol" -> DescriptionInputs
      [] o = "formatDepth" -> FormatInputs
      [] o = "computeIntervalSize" -> SizeInputs
      [] o = "createLithologyLog" -> SectionLists
      [] OTHER -> SectionInputs

FnNames ==
    {"inferLithologySymbol", "formatDepth", "computeIntervalSize", "createLithologyLog",
     "filter"}

InitFn ==
    /\ variant = 2
    /\ LoaderInit
    /\ op \in FnNames
    /\ arg \in FnInputs(op)
    /\ res = [done |-> FALSE, value |-> Null]

Return(value) ==
    /\ ~res.done
    /\ res' = [done |-> TRUE, value |-> value]
    /\ UNCHANGED <<variant, pc, response, classes, statusText, hidden, cards, last, op, arg>>

ApplyInfer == op = "inferLithologySymbol" /\ Return(inferLithologySymbol(arg))

ApplyFormat == op = "formatDepth" /\ Return(formatDepth(arg))

ApplySize == op = "computeIntervalSize" /\ Return(computeIntervalSize(arg[1], arg[2]))

ApplyFilter == op = "filter" /\ Return(KeepSection(arg))

ApplyLog == op = "createLithologyLog" /\ Return(createLithologyLog(arg))

NextFn == ApplyInfer \/ ApplyFormat \/ ApplySize \/ ApplyFilter \/ ApplyLog

SpecFn == InitFn /\ [][NextFn]_vars

(***************************************************************************)
(* Vocabulary of the claims, stated apart from the code's own expressions. *)
(***************************************************************************)
StateClasses == {"success", "empty", "error"}

\* A description that is absent, empty or only whitespace.
BlankDescriptions == {Null, Undefined, Str(<<>>), Str(<<" ">>), Str(<<" ", " ">>)}

\* A depth that is absent, the empty string or the number zero.
FalsyDepths == {Null, Undefined, Str(<<>>), Num(0)}

Discarded(section) ==
    /\ section.description \in BlankDescriptions
    /\ section.from_depth \in FalsyDepths
    /\ section.to_depth \in FalsyDepths

\* The intervals of a list that are not discarded, in the order received.
RECURSIVE RetainedIntervals(_)
RetainedIntervals(sections) ==
    IF sections = <<>> THEN <<>>
    ELSE (IF Discarded(Head(sections)) THEN <<>> ELSE <<Head(sections)>>)
         \o RetainedIntervals(Tail(sections))

IntervalsOf(entry) ==
    IF entry.isNull \/ ~entry.sections.isArray THEN <<>>
    ELSE RetainedIntervals(entry.sections.items)

\* The entries of a payload that keep at least one interval, in payload order.
RECURSIVE RetainedEntries(_)
RetainedEntries(entries) ==
    IF entries = <<>> THEN <<>>
    ELSE (IF IntervalsOf(Head(entries)) = <<>> THEN <<>> ELSE <<Head(entries)>>)
         \o RetainedEntries(Tail(entries))

HasNullEntry(payload) == \E i \in 1..Len(payload.items) : payload.items[i].isNull

\* Filtering or building the cards raises on this payload.
RaisesOn(payload) ==
    \/ HasNullEntry(payload)
    \/ \E i \in 1..Len(RetainedEntries(payload.items)) :
          UriMalformed(RetainedEntries(payload.items)[i].pdf_filename)

\* message occurs in text as a run of consecutive pieces.
ContainsText(text, message) ==
    \E i \in 0..(Len(text) - Len(message)) :
        \A j \in 1..Len(message) : text[i + j] = message[j]

\* The step in which response.json() settles and the load finishes.
BodySettles == pc = "json" /\ pc' = "idle"

ThePayload == response.body.payload

\* Not an array, an empty array, or every entry left without an interval.
NothingToShow(payload) ==
    \/ ~payload.isArray
    \/ payload.items = <<>>
    \/ (~HasNullEntry(payload) /\ RetainedEntries(payload.items) = <<>>)

\* What a successful load shows for a payload: a card per retained entry.
ShowsRetained(payload) ==
    LET retained == RetainedEntries(payload.items)
    IN  /\ classes' = {"success"}
        /\ ~hidden'
        /\ Len(cards') = Len(retained)
        /\ \A i \in 1..Len(retained) : cards'[i].title = retained[i].title
        /\ statusText' = <<ToString(Len(retained)), " ",
                           IF Len(retained) = 1 THEN "log" ELSE "logs",
                           " with lithological data loaded.">>

(***************************************************************************)
(* C1.  Every finished invocation leaves exactly one of the state classes  *)
(* success, empty, error on the status element: the class of its own       *)
(* outcome, none left over from an earlier invocation.  (All variants.)    *)
(***************************************************************************)
C1_OneStateClass ==
    last.outcome # "none" =>
        /\ last.outcome \in StateClasses
        /\ classes = {last.outcome}

(***************************************************************************)
(* C2.  A failed load (fetch rejected, non-success status, unparseable     *)
(* body, exception while filtering or rendering) ends in the error state,  *)
(* the status text contains the thrown message (the numeric status for a   *)
(* non-success response), and the content area is not shown.               *)
(***************************************************************************)
C2_FailureHidesContent ==
    (last.cause \in {"reject", "status", "parse"} \/ last.message # <<>>) =>
        /\ classes = {"error"}
        /\ ContainsText(statusText, last.message)
        /\ hidden

(***************************************************************************)
(* C3.  The filter discards an interval exactly when its description is    *)
(* empty or whitespace-only and both depths are empty/falsy; a depth of    *)
(* zero does not retain an interval.                                       *)
(***************************************************************************)
C3_DiscardRule ==
    (op = "filter" /\ res.done) =>
        /\ (~res.value) <=> Discarded(arg)
        /\ (arg.description \in BlankDescriptions
              /\ arg.from_depth = Num(0) /\ arg.to_depth = Num(0)) => ~res.value

C3_Witness ==
    /\ op = "filter" /\ res.done /\ ~res.value
    /\ arg = Section(Str(<<" ">>), Num(0), Null)

(***************************************************************************)
(* C4.  A load with a successful response ends in the empty state exactly  *)
(* when the payload is not an array, is an empty array, or every entry is  *)
(* left with no interval after filtering (sections that are not an array   *)
(* count as none); then the content area is hidden, and the message for no *)
(* logs differs from the message for no logs with interval data.           *)
(***************************************************************************)
C4_EmptyExactly ==
    [][BodySettles =>
          /\ (classes' = {"empty"}) <=> (response.body.parsed /\ NothingToShow(ThePayload))
          /\ (classes' = {"empty"}) =>
                /\ hidden'
                /\ statusText' =
                      IF ~ThePayload.isArray \/ ThePayload.items = <<>>
                      THEN <<"No lithology logs are available yet.">>
                      ELSE <<"No lithology logs with interval data are available yet.">>]_vars

C4_Witness ==
    /\ last.outcome = "empty" /\ last.size = MaxEntries
    /\ statusText = <<"No lithology logs with interval data are available yet.">>
    /\ hidden /\ cards # <<>>

CategoryOrder == <<"Clay", "Sand", "Silt", "Gravel", "Organic material", "Marl">>

KeywordsOf(label) ==
    LET symbol == CHOOSE i \in 1..Len(LITHOLOGY_SYMBOLS) : LITHOLOGY_SYMBOLS[i].label = label
    IN  {LITHOLOGY_SYMBOLS[symbol].keywords[k] :
            k \in 1..Len(LITHOLOGY_SYMBOLS[symbol].keywords)}

\* The text of a description: none when it is absent.
DescriptionText(d) == IF d \in {Null, Undefined} THEN <<>> ELSE JsToString(d)

OccursIgnoringCase(keyword, text) ==
    \E i \in 0..(Len(text) - Len(keyword)) :
        \A j \in 1..Len(keyword) : LowerChar(text[i + j]) = LowerChar(keyword[j])

Mentions(d, label) ==
    \E keyword \in KeywordsOf(label) : OccursIgnoringCase(keyword, DescriptionText(d))

NonNumericText(v) ==
    v.t = "string" /\ (\E i \in 1..Len(v.s) : v.s[i] # " ") /\ ~ParseNumber(v.s).finite

NoDepth(v) == v \in {Null, Undefined} \/ (v.t = "string" /\ \A i \in 1..Len(v.s) : v.s[i] = " ")

(***************************************************************************)
(* C7.  For a non-empty string that does not parse as a number formatDepth *)
(* returns the string with no unit suffix; for null, undefined and strings *)
(* empty after trimming it returns the em dash.                            *)
(***************************************************************************)
\* C7 as claimed: character for character the input.
C7_Verbatim ==
    (op = "formatDepth" /\ res.done) =>
        /\ NonNumericText(arg) => res.value = arg.s
        /\ NoDepth(arg) => res.value = EmDash

\* C7 as amended: the input without its leading and trailing whitespace.
C7_VerbatimTrimmed ==
    (op = "formatDepth" /\ res.done) =>
        /\ NonNumericText(arg) =>
              \E i, j \in 1..Len(arg.s) :
                  /\ res.value = SubSeq(arg.s, i, j)
                  /\ arg.s[i] # " " /\ arg.s[j] # " "
                  /\ \A k \in 1..Len(arg.s) : (k < i \/ k > j) => arg.s[k] = " "
        /\ NoDepth(arg) => res.value = EmDash

C7_Witness ==
    /\ op = "formatDepth" /\ res.done
    /\ arg = Str(<<" ", "4", ",">>)
    /\ res.value = <<"4", ",">>

(***************************************************************************)
(* C8.  computeIntervalSize gives to - from when both are present and the  *)
(* difference is positive, 0.5 when it is zero and 1 otherwise; so every   *)
(* weight is positive and the total weight of a non-empty entry is not     *)
(* zero.                                                                   *)
(***************************************************************************)
C8_IntervalSize ==
    /\ (op = "computeIntervalSize" /\ res.done) =>
          LET present == arg[1] # Null /\ arg[2] # Null
              difference == arg[2].n - arg[1].n
          IN  /\ (present /\ difference > 0) => res.value = difference
              /\ (present /\ difference = 0) => 2 * res.value = OneUnit
              /\ (~present \/ difference < 0) => res.value = OneUnit
              /\ res.value > 0
    /\ (op = "createLithologyLog" /\ res.done /\ arg # <<>>) =>
          /\ Len(res.value.rows) = Len(arg)
          /\ \A i \in 1..Len(arg) :
                res.value.rows[i].size > 0 /\ res.value.rows[i].total > 0

C8_Witness ==
    /\ op = "computeIntervalSize" /\ res.done
    /\ arg = <<Num(OneUnit), Num(OneUnit)>>
    /\ res.value = HalfUnit

(***************************************************************************)
(* C9.  The rows of every card shown are the entry's retained intervals in *)
(* the order received: nothing reordered, sorted by depth, merged or       *)
(* deduplicated; as many rows as retained intervals.                       *)
(***************************************************************************)
C9_RowsAsReceived ==
    [][(BodySettles /\ classes' = {"success"}) =>
          \A i \in 1..Len(cards') :
              LET kept == IntervalsOf(RetainedEntries(ThePayload.items)[i])
                  rows == cards'[i].body.rows
              IN  /\ Len(rows) = Len(kept)
                  /\ \A k \in 1..Len(kept) :
                        /\ rows[k].description = kept[k].description
                        /\ rows[k].from = formatDepth(kept[k].from_depth)
                        /\ rows[k].to = formatDepth(kept[k].to_depth)]_vars

C9_Witness ==
    /\ last.outcome = "success" /\ ~hidden
    /\ \E i \in 1..Len(cards) :
          LET rows == cards[i].body.rows
          IN  /\ Len(rows) = 4
              /\ rows[1].from = <<"2", " ", "m">>
              /\ rows[2].from = <<"0", " ", "m">>
              /\ rows[2] = rows[3]

(***************************************************************************)
(* C10.  Every card the loader builds is given a non-empty interval list,  *)
(* so the renderer's "No lithological section data ..." message is never   *)
(* displayed.                                                              *)
(***************************************************************************)
C10_NoEmptyStateRow ==
    \A i \in 1..Len(cards) :
        /\ cards[i].body.rows # <<>>
        /\ cards[i].body.message # EmptyStateText

C10_Witness ==
    /\ variant = 2 /\ last.outcome = "success"
    /\ Len(cards) = 1 /\ last.size = 2
    /\ cards[1].title = "A"

====
